---- MODULE Spec2Model ----
(***************************************************************************)
(* Model of valora_streamlit.py: one Streamlit script shared by several    *)
(* operator sessions of one process.  A script run reads the sidebar and   *)
(* the form, and (when "Analyze" was pressed) produces a report by one of  *)
(* three paths: a canned DEMO_RESULTS entry, the local projection, or a    *)
(* remote chat completion whose reply goes through parse_json_safe.        *)
(*                                                                         *)
(* Text is a sequence of tokens.  Each token stands for a piece of text:   *)
(*   "FENCE" a fence marker (three backticks)   "LF"  a line break       *)
(*   "SP"   a blank                  "x"   a prose character               *)
(*   "{" "}" ","  the JSON punctuation                                     *)
(*   "true" the JSON literal true    "a"   the member  "a":1               *)
(*   "property" "prediction2" "prediction3" "strategy"                     *)
(*          a well-formed member of the report schema (the digit is the    *)
(*          number of projected_values and the projection_years inside)    *)
(* Money is a whole number of currency units; percentages with one decimal *)
(* are kept in tenths of a percent (3.2 is 32, 5.8 is 58).                 *)
(***************************************************************************)
EXTENDS Integers, Sequences, FiniteSets, TLC

\* ------------------------------------------------------------------ bounds
MaxValue == 40      \* the small amounts 0..MaxValue typed into a number_input
MaxLen == 5         \* longest reply enumerated token by token
MaxTicks == 1       \* how many times the calendar year may advance

\* --------------------------------------------------------------- constants
MinYears == 1
MaxYears == 7
DefaultBase == 300000
annual == 32
expected_roi_pct == 58
confidence_pct == 60
amount_off_pct == 3

Scale == 10 * 100          \* 1 + annual/100 = (Scale + annual) / Scale

\* ------------------------------------------------------------ text helpers
Fence == "FENCE"
LF == "LF"
SP == "SP"
Whitespace == {LF, SP}

RECURSIVE LStrip(_)
LStrip(s) == IF s # <<>> /\ Head(s) \in Whitespace THEN LStrip(Tail(s)) ELSE s

RECURSIVE RStrip(_)
RStrip(s) ==
    IF s # <<>> /\ s[Len(s)] \in Whitespace
    THEN RStrip(SubSeq(s, 1, Len(s) - 1)) ELSE s

\* str.strip()
Strip(s) == RStrip(LStrip(s))

\* str.startswith(fence marker)
StartsWithFence(s) == s # <<>> /\ s[1] = Fence

\* str.find(c): 0-based index of the first c, -1 when there is none
RECURSIVE FindFrom(_, _, _)
FindFrom(s, c, i) ==
    IF i > Len(s) THEN -1
    ELSE IF s[i] = c THEN i - 1 ELSE FindFrom(s, c, i + 1)
Find(s, c) == FindFrom(s, c, 1)

\* str.rfind(c): 0-based index of the last c, -1 when there is none
RECURSIVE RFindFrom(_, _, _)
RFindFrom(s, c, i) ==
    IF i < 1 THEN -1
    ELSE IF s[i] = c THEN i - 1 ELSE RFindFrom(s, c, i - 1)
RFind(s, c) == RFindFrom(s, c, Len(s))

\* Python's s[start:end] with its index rules: a negative index counts from
\* the end, both are clamped to 0..len, an empty range gives "".
ClampIndex(n, k) ==
    LET j == IF k < 0 THEN k + n ELSE k
    IN  IF j < 0 THEN 0 ELSE IF j > n THEN n ELSE j
Slice(s, start, end) ==
    SubSeq(s, ClampIndex(Len(s), start) + 1, ClampIndex(Len(s), end))

\* str.splitlines(): the lines without their breaks; a trailing break opens
\* no further line and the empty text has no lines.
RECURSIVE SplitAcc(_, _, _)
SplitAcc(s, cur, acc) ==
    IF s = <<>> THEN (IF cur = <<>> THEN acc ELSE Append(acc, cur))
    ELSE IF Head(s) = LF THEN SplitAcc(Tail(s), <<>>, Append(acc, cur))
    ELSE SplitAcc(Tail(s), Append(cur, Head(s)), acc)
SplitLines(s) == SplitAcc(s, <<>>, <<>>)

\* "\n".join(lines)
RECURSIVE JoinLines(_)
JoinLines(lines) ==
    IF lines = <<>> THEN <<>>
    ELSE IF Len(lines) = 1 THEN lines[1]
    ELSE lines[1] \o <<LF>> \o JoinLines(Tail(lines))

\* --------------------------------------------------------------- json.loads
\* A parsed document: an object (its members in order), the literal true, or the
\* failure json.loads reports by raising.
PropertyMember == [address |-> "remote", estimated_current_value |-> 1, currency |-> "USD"]
PredictionMember(n) ==
    [annual_growth_pct |-> annual, projection_years |-> n,
     projected_values |-> [i \in 1..n |-> [year |-> i, value |-> i]],
     confidence_pct |-> confidence_pct]
StrategyMember ==
    [best_strategy |-> "buy_hold", explanation |-> "remote", expected_roi_pct |-> expected_roi_pct]

MemberTokens == {"a", "property", "prediction2", "prediction3", "strategy"}
MemberName(t) ==
    CASE t = "prediction2" -> "prediction"
      [] t = "prediction3" -> "prediction"
      [] OTHER -> t
MemberValue(t) ==
    CASE t = "a" -> [n |-> 1]
      [] t = "property" -> PropertyMember
      [] t = "prediction2" -> PredictionMember(2)
      [] t = "prediction3" -> PredictionMember(3)
      [] OTHER -> StrategyMember

NoDict == [k \in {} |-> 0]
JsonError == [type |-> "error", value |-> NoDict]
JsonTrue == [type |-> "true", value |-> NoDict]

\* the dict of an object's members: a later member of the same name wins
JsonObject(ms) ==
    LET last(k) == CHOOSE i \in 1..Len(ms) :
                       /\ MemberName(ms[i]) = k
                       /\ \A j \in (i + 1)..Len(ms) : MemberName(ms[j]) # k
    IN  [type |-> "object",
         value |-> [k \in {MemberName(ms[i]) : i \in 1..Len(ms)} |-> MemberValue(ms[last(k)])]]

\* the members between the braces: member ("," member)*
RECURSIVE MembersOk(_)
MembersOk(toks) ==
    \/ Len(toks) = 1 /\ toks[1] \in MemberTokens
    \/ /\ Len(toks) >= 3
       /\ toks[1] \in MemberTokens
       /\ toks[2] = ","
       /\ MembersOk(SubSeq(toks, 3, Len(toks)))

\* blanks and line breaks between the tokens of a document mean nothing
JsonLoads(s) ==
    LET toks == SelectSeq(s, LAMBDA t : t \notin Whitespace)
        n == Len(toks)
        inner == SubSeq(toks, 2, n - 1)
    IN  IF toks = <<"true">> THEN JsonTrue
        ELSE IF n >= 2 /\ toks[1] = "{" /\ toks[n] = "}"
                /\ (inner = <<>> \/ MembersOk(inner))
        THEN JsonObject(SelectSeq(inner, LAMBDA t : t # ","))
        ELSE JsonError

\* k in result, for a dict; result[k] raises on anything else
HasKey(doc, k) == doc.type = "object" /\ k \in DOMAIN doc.value

\* ----------------------------------------------------------- parse_json_safe
\* lines 85-88: the first attempt
FirstAttempt(txt) ==
    LET cleaned == Strip(txt)
        lines == SplitLines(cleaned)
        unfenced == IF StartsWithFence(cleaned)
                    THEN JoinLines(SubSeq(lines, 2, Len(lines) - 1))
                    ELSE cleaned
    IN  JsonLoads(unfenced)

\* the fallback without the "+ 1": the last brace is left out
BraceScanExclusive(txt) ==
    LET start == Find(txt, "{")
        end == RFind(txt, "}")
    IN  JsonLoads(Slice(txt, start, end))

\* lines 91-93: the fallback, on the text as it came
BraceScan(txt) ==
    LET start == Find(txt, "{")
        end == RFind(txt, "}") + 1
    IN  JsonLoads(Slice(txt, start, end))

parse_json_safe(txt) ==
    IF FirstAttempt(txt).type # "error" THEN FirstAttempt(txt) ELSE BraceScan(txt)

\* ------------------------------------------------------- the local projection
\* base * ((1 + annual/100) ** i) is base * (Scale + annual)^i / Scale^i.  The
\* numerator is kept as a numeral of digits below Scale, lowest first, so that
\* no intermediate value leaves the machine integers.
RECURSIVE ToDigits(_)
ToDigits(n) == IF n = 0 THEN <<>> ELSE <<n % Scale>> \o ToDigits(n \div Scale)

RECURSIVE FromDigits(_)
FromDigits(d) == IF d = <<>> THEN 0 ELSE d[1] + Scale * FromDigits(Tail(d))

RECURSIVE TimesGrowth(_, _)
TimesGrowth(d, carry) ==
    IF d = <<>> THEN ToDigits(carry)
    ELSE LET p == d[1] * (Scale + annual) + carry
         IN  <<p % Scale>> \o TimesGrowth(Tail(d), p \div Scale)

RECURSIVE Compound(_, _)
Compound(base, i) ==
    IF i = 0 THEN ToDigits(base) ELSE TimesGrowth(Compound(base, i - 1), 0)

DigitAt(d, k) == IF k <= Len(d) THEN d[k] ELSE 0

\* the fraction's digits d[i], ..., d[1] against one half: 1 above, 0 equal, -1 below
RECURSIVE CompareHalf(_, _, _)
CompareHalf(d, k, top) ==
    IF k = 0 THEN 0
    ELSE LET h == IF top THEN Scale \div 2 ELSE 0
         IN  IF DigitAt(d, k) > h THEN 1
             ELSE IF DigitAt(d, k) < h THEN -1
             ELSE CompareHalf(d, k - 1, FALSE)

\* round(): to the nearest whole number, a tie to the even one
Round(d, i) ==
    LET whole == FromDigits(SubSeq(d, i + 1, Len(d)))
        c == CompareHalf(d, i, TRUE)
    IN  IF c > 0 \/ (c = 0 /\ whole % 2 = 1) THEN whole + 1 ELSE whole

\* line 152
ProjectedValue(base, i) == Round(Compound(base, i), i)

\* the purchase price taken before the estimate
BaseValuePriceFirst(estimated_value, purchase_price) ==
    IF purchase_price > 0 THEN purchase_price
    ELSE IF estimated_value > 0 THEN estimated_value ELSE DefaultBase

\* line 147
BaseValue(estimated_value, purchase_price) ==
    IF estimated_value > 0 THEN estimated_value
    ELSE IF purchase_price > 0 THEN purchase_price ELSE DefaultBase

\* range(1, years) in place of range(1, years+1)
ProjectedShort(base, years, current_year) ==
    [i \in 1..(years - 1) |-> [year |-> current_year + i, value |-> ProjectedValue(base, i)]]

\* lines 149-153
Projected(base, years, current_year) ==
    [i \in 1..years |-> [year |-> current_year + i, value |-> ProjectedValue(base, i)]]

\* ------------------------------------------------------------------- state
VARIABLES
    environ,          \* os.environ["OPENAI_API_KEY"], of the process
    secrets,          \* st.secrets["OPENAI_API_KEY"], of the process
    openai_imported,  \* whether "import openai" succeeded (lines 10-13)
    openai_api_key,   \* openai.api_key, of the process
    session_state,    \* per session: st.session_state["OPENAI_API_KEY_TEMP"]
    now_year,         \* the calendar year pd.Timestamp.now() reads
    run,              \* the widgets' values in the latest script run
    current_year,     \* the script's current_year (line 150), 0 while unassigned
    path,             \* the branch the latest run took
    calls,            \* openai.ChatCompletion.create invocations of the latest run
    call_key,         \* the key the latest run's invocation carried
    service,          \* how the remote service treats the call: answers or fails, and its reply
    raw,              \* the reply of the latest run's invocation
    result,           \* the script's result
    rendered          \* what the latest run put on the page, in order

vars == <<environ, secrets, openai_imported, openai_api_key, session_state, now_year,
          run, current_year, path, calls, call_key, service, raw, result, rendered>>

Unset == "UNSET"
Sessions == {"s1", "s2"}
\* the key an operator types into the sidebar of their session
TypedKey == [s \in Sessions |-> IF s = "s1" THEN "key-s1" ELSE "key-s2"]

CannedAddress == "123 Main St, Los Angeles, CA"
OtherAddress == "9 Elm Rd"
Addresses == {CannedAddress, OtherAddress}
SliderYears == MinYears..MaxYears

NoResult == [type |-> "none", value |-> NoDict]
Dict(d) == [type |-> "object", value |-> d]

\* lines 53-62
DEMO_RESULTS ==
    [a \in {CannedAddress} |->
        Dict([property |-> [address |-> CannedAddress, estimated_current_value |-> 750000,
                            currency |-> "USD"],
              prediction |-> [annual_growth_pct |-> 45, projection_years |-> 3,
                              projected_values |-> << [year |-> 2025, value |-> 783750],
                                                      [year |-> 2026, value |-> 818900],
                                                      [year |-> 2027, value |-> 855120] >>,
                              confidence_pct |-> 78],
              strategy |-> [best_strategy |-> "buy_hold", explanation |-> "canned",
                            expected_roi_pct |-> 81],
              negotiation_tip |-> [amount_off_suggestion |-> 20000, reason |-> "canned"],
              comparables |-> << [address |-> "118 Elm St", sale_price |-> 732000,
                                  days_on_market |-> 38],
                                 [address |-> "234 Oak Ave", sale_price |-> 769000,
                                  days_on_market |-> 22] >>,
              alternative_opportunities |-> << [type |-> "duplex", address |-> "200 Maple St",
                                                estimated_roi_pct |-> 92] >>])]

\* a report that remembers the page: a repeated local run lowers the confidence
LocalReportStateful(address, estimated_value, purchase_price, years, cy) ==
    LET base == BaseValue(estimated_value, purchase_price)
    IN  Dict([property |-> [address |-> address, estimated_current_value |-> base,
                            currency |-> "USD"],
              prediction |-> [annual_growth_pct |-> annual, projection_years |-> years,
                              projected_values |-> Projected(base, years, cy),
                              confidence_pct |-> IF path = "local" THEN confidence_pct - 1
                                                 ELSE confidence_pct],
              strategy |-> [best_strategy |-> "buy_hold", explanation |-> "generic",
                            expected_roi_pct |-> expected_roi_pct],
              negotiation_tip |-> [amount_off_suggestion |-> (base * amount_off_pct) \div 100,
                                   reason |-> "generic"],
              comparables |-> <<>>,
              alternative_opportunities |-> <<>>])

\* lines 147-161
LocalReport(address, estimated_value, purchase_price, years, cy) ==
    LET base == BaseValue(estimated_value, purchase_price)
    IN  Dict([property |-> [address |-> address, estimated_current_value |-> base,
                            currency |-> "USD"],
              prediction |-> [annual_growth_pct |-> annual, projection_years |-> years,
                              projected_values |-> Projected(base, years, cy),
                              confidence_pct |-> confidence_pct],
              strategy |-> [best_strategy |-> "buy_hold", explanation |-> "generic",
                            expected_roi_pct |-> expected_roi_pct],
              negotiation_tip |-> [amount_off_suggestion |-> (base * amount_off_pct) \div 100,
                                   reason |-> "generic"],
              comparables |-> <<>>,
              alternative_opportunities |-> <<>>])

\* lines 143, 146, 162: the branch a submission takes
Branch(demo_mode, address) ==
    IF demo_mode /\ address \in DOMAIN DEMO_RESULTS THEN "canned"
    ELSE IF demo_mode THEN "local"
    ELSE "remote"

\* lines 67-70: os.getenv(...) or the secret, "" and None both count as absent
Truthy(k) == k # Unset /\ k # ""
ResolveKey(env, sec) == IF Truthy(env) THEN env ELSE sec

\* lines 167-168: the session's key, when it has one, is written to os.environ
EnvironAfter(env, temp) == IF temp # Unset THEN temp ELSE env

\* lines 113-115
SessionAfter(temp, api_key_input) == IF api_key_input # "" THEN api_key_input ELSE temp

\* lines 177-214: the report section, up to the first lookup that raises
Render(res) ==
    <<"header", "subheader_property">> \o
    (IF ~HasKey(res, "property") THEN <<"exception">>
     ELSE <<"address", "metric_value", "subheader_prediction">> \o
     (IF ~HasKey(res, "prediction") THEN <<"exception">>
      ELSE <<"growth", "confidence", "chart", "subheader_strategy">> \o
      (IF ~HasKey(res, "strategy") THEN <<"exception">>
       ELSE <<"best_strategy", "explanation", "metric_roi",
              "subheader_negotiation", "suggest", "reason">> \o
            (IF HasKey(res, "comparables") /\ res.value.comparables # <<>>
             THEN <<"subheader_comparables", "dataframe_comparables">> ELSE <<>>) \o
            (IF HasKey(res, "alternative_opportunities")
                /\ res.value.alternative_opportunities # <<>>
             THEN <<"subheader_alternatives", "dataframe_alternatives">> ELSE <<>>) \o
            <<"rule", "caption">>)))

\* call_openai_chat without the "if not api_key" check
CanInvokeUnchecked(imported, api_key) == imported

\* lines 65-72: call_openai_chat gets as far as ChatCompletion.create
CanInvoke(imported, api_key) == imported /\ Truthy(api_key)

\* a second invocation after a failed call or an unparsable reply
InvocationsRetry(can_call, answered, parsed_ok) ==
    IF ~can_call THEN 0 ELSE IF answered /\ parsed_ok THEN 1 ELSE 2

\* lines 75-80, 170-175: create is invoked once, whatever comes of it
Invocations(can_call, answered, parsed_ok) == IF can_call THEN 1 ELSE 0

\* lines 169-175: the remote branch's result, NoResult when the run was stopped
RemoteResult(got, parsed) == IF got /\ parsed.type # "error" THEN parsed ELSE NoResult

\* lines 130-214: what a submission puts on the page
Page(br, got, res) ==
    <<"info">> \o
    (IF br = "canned" THEN <<"success">> ELSE <<>>) \o
    (IF got THEN <<"raw_text_area">> ELSE <<>>) \o
    (IF br = "remote" /\ res.type = "none" THEN <<"error">> ELSE Render(res))

Form(s, demo_mode, address, estimated_value, purchase_price, years) ==
    [session |-> s, demo_mode |-> demo_mode, address |-> address,
     estimated_value |-> estimated_value, purchase_price |-> purchase_price,
     years |-> years]

\* lines 108-214 with submit pressed: one script run of session s
Submit(s, api_key_input, demo_mode, address, estimated_value, purchase_price, years, svc) ==
    LET temp == SessionAfter(session_state[s], api_key_input)
        br == Branch(demo_mode, address)
        env == IF br = "remote" THEN EnvironAfter(environ, temp) ELSE environ
        api_key == ResolveKey(env, secrets)
        can_call == br = "remote" /\ CanInvoke(openai_imported, api_key)
        got == can_call /\ svc.answered
        parsed == IF got THEN parse_json_safe(svc.reply) ELSE JsonError
        res == CASE br = "canned" -> DEMO_RESULTS[address]
                 [] br = "local" ->
                      LocalReport(address, estimated_value, purchase_price, years, now_year)
                 [] OTHER -> RemoteResult(got, parsed)
    IN  /\ session_state' = [session_state EXCEPT ![s] = temp]
        /\ environ' = env
        /\ openai_api_key' = IF can_call THEN api_key ELSE openai_api_key
        /\ run' = Form(s, demo_mode, address, estimated_value, purchase_price, years)
        /\ current_year' = IF br = "local" THEN now_year ELSE 0
        /\ path' = br
        /\ calls' = IF br = "remote"
                    THEN Invocations(can_call, svc.answered, parsed.type # "error") ELSE 0
        /\ call_key' = IF can_call THEN api_key ELSE Unset
        /\ service' = IF can_call THEN svc ELSE service
        /\ raw' = IF got THEN svc.reply ELSE <<>>
        /\ result' = res
        /\ rendered' = Page(br, got, res)
        /\ UNCHANGED <<secrets, openai_imported, now_year>>

\* the sidebar's text_input still holds the key typed earlier, if any
KeyWidget(s) == IF session_state[s] # Unset THEN session_state[s] ELSE ""

\* lines 108-128 without submit: the operator types a key, the script reruns
\* and shows the empty form page
EnterKey(s) ==
    /\ session_state' = [session_state EXCEPT ![s] = SessionAfter(@, TypedKey[s])]
    /\ run' = [run EXCEPT !.session = s]
    /\ current_year' = 0
    /\ path' = "none"
    /\ calls' = 0
    /\ call_key' = Unset
    /\ raw' = <<>>
    /\ result' = NoResult
    /\ rendered' = <<>>
    /\ UNCHANGED <<environ, secrets, openai_imported, openai_api_key, now_year, service>>

\* the calendar year turns
Tick ==
    /\ now_year < 2025 + MaxTicks
    /\ now_year' = now_year + 1
    /\ UNCHANGED <<environ, secrets, openai_imported, openai_api_key, session_state,
                   run, current_year, path, calls, call_key, service, raw, result, rendered>>

\* ------------------------------------------------------------------ inputs
ServiceFails == [answered |-> FALSE, reply |-> <<>>]
Answer(txt) == [answered |-> TRUE, reply |-> txt]

FullReport3 == <<"{", "property", ",", "prediction3", ",", "strategy", "}">>
FullReport2 == <<"{", "property", ",", "prediction2", ",", "strategy", "}">>
Replies ==
    { FullReport3,
      <<Fence, "x", LF>> \o FullReport3 \o <<LF, Fence>>,
      <<"x", SP>> \o FullReport2 \o <<SP, "x">>,
      <<"{", "a", "}">>,
      <<"{", "property", "}">>,
      <<"true">>,
      <<"x", "x">> }
Outcomes == {ServiceFails} \cup {Answer(t) : t \in Replies}

\* every text of at most MaxLen tokens
ParseTokens == {Fence, LF, SP, "{", "}", "a", "x", "true"}
Texts == UNION {[1..n -> ParseTokens] : n \in 0..MaxLen}

SmallValues == 0..MaxValue
Values == SmallValues \cup {250000, 750000}
AppValues == {0, 1000}
AppYears == {MinYears, 3, MaxYears}

\* ------------------------------------------------------------ specifications
\* the widgets' defaults (lines 116, 123-126)
DefaultForm == Form("s1", TRUE, CannedAddress, 0, 0, 3)

InitWith(form, svc) ==
    /\ environ \in {Unset, "", "env-key"}
    /\ secrets \in {Unset, "secret-key"}
    /\ openai_imported \in BOOLEAN
    /\ openai_api_key = Unset
    /\ session_state = [s \in Sessions |-> Unset]
    /\ now_year = 2025
    /\ run = form
    /\ current_year = 0
    /\ path = "none"
    /\ calls = 0
    /\ call_key = Unset
    /\ service = svc
    /\ raw = <<>>
    /\ result = NoResult
    /\ rendered = <<>>

Init == InitWith(DefaultForm, ServiceFails)

AnalyzeDemo ==
    \E s \in Sessions, address \in Addresses, ev \in AppValues, years \in AppYears :
        Submit(s, KeyWidget(s), TRUE, address, ev, 0, years, service)

AnalyzeRemote ==
    \E s \in Sessions, years \in AppYears, svc \in Outcomes :
        Submit(s, KeyWidget(s), FALSE, CannedAddress, 0, 0, years, svc)

TypeKey == \E s \in Sessions : EnterKey(s)

Next == TypeKey \/ AnalyzeDemo \/ AnalyzeRemote

Spec == Init /\ [][Next]_vars

\* the local projection over a range of amounts: the form is filled in, the
\* operator presses Analyze in demo mode, the year may turn in between
InitLocal ==
    \E address \in Addresses, ev \in Values, pp \in Values, years \in SliderYears :
        /\ environ = Unset /\ secrets = Unset /\ openai_imported = TRUE
        /\ InitWith(Form("s1", TRUE, address, ev, pp, years), ServiceFails)

AnalyzeForm ==
    Submit(run.session, KeyWidget(run.session), run.demo_mode, run.address, run.estimated_value,
           run.purchase_price, run.years, service)

NextLocal == AnalyzeForm \/ Tick

SpecLocal == InitLocal /\ [][NextLocal]_vars

\* parse_json_safe over every short reply: the service is about to answer txt
InitParse ==
    \E txt \in Texts :
        /\ environ = "env-key" /\ secrets = Unset /\ openai_imported = TRUE
        /\ InitWith(Form("s1", FALSE, CannedAddress, 0, 0, 3), Answer(txt))

NextParse == AnalyzeForm

SpecParse == InitParse /\ [][NextParse]_vars

\* ------------------------------------------------------------------ claims
ProjectedOf(res) == res.value.prediction.projected_values
BaseOf(res) == res.value.property.estimated_current_value
ReportWidgets ==
    {"header", "subheader_property", "address", "metric_value", "subheader_prediction",
     "growth", "confidence", "chart", "subheader_strategy", "best_strategy", "explanation",
     "metric_roi", "subheader_negotiation", "suggest", "reason", "subheader_comparables",
     "dataframe_comparables", "subheader_alternatives", "dataframe_alternatives",
     "rule", "caption"}
Shown == {rendered[i] : i \in 1..Len(rendered)}

\* C1 as stated: in the local branch the projected_values have exactly `years`
\* entries, none negative, and each year's value is strictly above the one
\* before, for every positive base.
C1_StrictlyIncreasingAlways ==
    path = "local" =>
        LET pv == ProjectedOf(result)
        IN  /\ Len(pv) = run.years
            /\ \A i \in 1..Len(pv) : pv[i].value >= 0
            /\ \A i \in 1..(Len(pv) - 1) : pv[i].value < pv[i + 1].value

\* C1 amended: exactly `years` entries, none negative, never decreasing, and
\* strictly increasing whenever the base is at least 27; below that the
\* rounding to whole units can make consecutive years equal.
C1_Projection ==
    path = "local" =>
        LET pv == ProjectedOf(result)
        IN  /\ Len(pv) = run.years
            /\ \A i \in 1..Len(pv) : pv[i].value >= 0
            /\ \A i \in 1..(Len(pv) - 1) : pv[i].value <= pv[i + 1].value
            /\ BaseOf(result) >= 27 =>
                   \A i \in 1..(Len(pv) - 1) : pv[i].value < pv[i + 1].value

\* a local projection over the longest horizon from base 27, still strict
C1_Witness ==
    /\ path = "local"
    /\ run.years = MaxYears
    /\ BaseOf(result) = 27
    /\ ProjectedOf(result)[MaxYears - 1].value < ProjectedOf(result)[MaxYears].value

\* the claim's algorithm, stated on positions of the text
C2_Trimmed(txt) ==
    LET solid == {i \in 1..Len(txt) : txt[i] \notin {LF, SP}}
    IN  IF solid = {} THEN <<>>
        ELSE SubSeq(txt, CHOOSE i \in solid : \A j \in solid : i <= j,
                         CHOOSE i \in solid : \A j \in solid : i >= j)
C2_Unfenced(t) ==
    LET breaks == {i \in 1..Len(t) : t[i] = LF}
    IN  IF t = <<>> \/ t[1] # Fence THEN t
        ELSE IF Cardinality(breaks) < 2 THEN <<>>
        ELSE SubSeq(t, (CHOOSE i \in breaks : \A j \in breaks : i <= j) + 1,
                       (CHOOSE i \in breaks : \A j \in breaks : i >= j) - 1)
C2_Braced(txt) ==
    LET opens == {i \in 1..Len(txt) : txt[i] = "{"}
        closes == {i \in 1..Len(txt) : txt[i] = "}"}
    IN  IF opens = {} \/ closes = {} THEN <<>>
        ELSE SubSeq(txt, CHOOSE i \in opens : \A j \in opens : i <= j,
                         CHOOSE i \in closes : \A j \in closes : i >= j)
C2_Expected(txt) ==
    LET first == JsonLoads(C2_Unfenced(C2_Trimmed(txt)))
        second == JsonLoads(C2_Braced(txt))
    IN  IF first.type # "error" THEN first ELSE second
C2_Prose(txt) == \A i \in 1..Len(txt) : txt[i] \in {"x", SP, LF}

\* C2: for a reply the service gave, the script's result is what the two
\* tiers give, the first success winning: the trimmed text without its fence
\* lines, else the original text from its first "{" to its last "}", else the
\* run ends in an error with no result.  So a document between two fence
\* lines and an object inside brace-free prose come back as they are, and a
\* text with no JSON in it fails.
C2_TwoTier ==
    (path = "remote" /\ calls = 1 /\ service.answered) =>
        LET exp == C2_Expected(raw)
            n == Len(raw)
        IN  /\ exp.type # "error" => result = exp /\ "error" \notin Shown
            /\ exp.type = "error" =>
                   result = NoResult /\ "error" \in Shown /\ Shown \cap ReportWidgets = {}
            /\ (/\ n >= 5 /\ raw[1] = Fence /\ raw[2] = LF
                 /\ raw[n - 1] = LF /\ raw[n] = Fence
                 /\ JsonLoads(SubSeq(raw, 3, n - 2)).type # "error")
                  => result = JsonLoads(SubSeq(raw, 3, n - 2))
            /\ \A i \in 1..n, j \in 1..n :
                   (/\ i < j /\ raw[i] = "{" /\ raw[j] = "}"
                    /\ C2_Prose(SubSeq(raw, 1, i - 1)) /\ C2_Prose(SubSeq(raw, j + 1, n))
                    /\ JsonLoads(SubSeq(raw, i, j)).type = "object")
                     => result = JsonLoads(SubSeq(raw, i, j))
            /\ (\A i \in 1..n, j \in 1..n : JsonLoads(SubSeq(raw, i, j)).type = "error")
                  => result = NoResult

\* an object inside prose, found by the fallback
C2_Witness ==
    /\ path = "remote" /\ calls = 1
    /\ raw = <<"x", "{", "a", "}", "x">>
    /\ FirstAttempt(raw).type = "error"
    /\ result = JsonObject(<<"a">>)

C4_NoPartialReport ==
    (/\ path = "remote"
     /\ \/ calls = 0
        \/ ~service.answered
        \/ result.type # "object"
        \/ ~({"property", "prediction"} \subseteq DOMAIN result.value))
    => ("error" \in Shown /\ Shown \cap ReportWidgets = {})

C6_SameInputsSameReport ==
    [][(path = "local" /\ path' = "local" /\ run' = run) => result' = result]_vars

\* C6 amended: a local run (a step that is not the turn of the year) labels
\* its values with the calendar year of the run plus 1, 2, ..., and when it
\* has the same inputs as the local run before it and is made in the same
\* calendar year it gives the same report.
C6_SameInputsSameYear ==
    [][(path' = "local" /\ now_year' = now_year) =>
          /\ current_year' = now_year
          /\ \A i \in 1..run'.years : ProjectedOf(result')[i].year = now_year + i
          /\ (path = "local" /\ run' = run /\ current_year' = current_year)
                => result' = result]_vars

\* a local run after the year has turned
C6_Witness ==
    /\ path = "local" /\ now_year = 2026 /\ current_year = 2026
    /\ ProjectedOf(result)[1].year = 2027

\* C7: whichever path made the report, projected_values has as many entries
\* as the slider's years, and projection_years equals it.
C7_HorizonMatches ==
    (path \in {"canned", "local", "remote"} /\ HasKey(result, "prediction")) =>
        /\ Len(ProjectedOf(result)) = run.years
        /\ result.value.prediction.projection_years = run.years

\* C8: a key typed in one session is never carried by another session's call
\* and never becomes the process's OPENAI_API_KEY or openai.api_key.
C8_KeyStaysInSession ==
    LET typed == {TypedKey[s] : s \in Sessions}
    IN  /\ environ \notin typed
        /\ openai_api_key \notin typed
        /\ call_key \notin (typed \ {TypedKey[run.session]})

\* C9: the local report's expected ROI is the growth over the horizon,
\* (1 + annual/100)^years - 1, here in tenths of a percent.
C9_RoiFromGrowth ==
    path = "local" =>
        result.value.strategy.expected_roi_pct = ProjectedValue(Scale, run.years) - Scale

\* C10: the local base is the estimate when positive, else the purchase
\* price when positive, else 300000; it is positive and is the report's
\* estimated_current_value.
C10_BasePrecedence ==
    path = "local" =>
        LET b == BaseOf(result)
        IN  /\ b > 0
            /\ run.estimated_value > 0 => b = run.estimated_value
            /\ (run.estimated_value = 0 /\ run.purchase_price > 0) => b = run.purchase_price
            /\ (run.estimated_value = 0 /\ run.purchase_price = 0) => b = 300000
            /\ ProjectedOf(result)[1].value >= b
            /\ result.value.negotiation_tip.amount_off_suggestion * 100 <= b * 3

\* no estimate, a purchase price: the price is the base
C10_Witness ==
    /\ path = "local"
    /\ run.estimated_value = 0 /\ run.purchase_price = MaxValue
    /\ BaseOf(result) = MaxValue

====
